---------------------------- MODULE Spec2Model ----------------------------
(***************************************************************************)
(* Place-interest classification: the serverless handler (main.py) and the *)
(* interactive form (app.py).  Both load a taxonomy of interest labels at  *)
(* import, build a prompt from a place-detail record, issue one request to *)
(* a chat-completion endpoint, parse the reply as JSON and validate it     *)
(* against the PlaceInterests schema.                                      *)
(*                                                                         *)
(* Texts are sequences of lexical chunks.  A CSV file is a sequence of     *)
(* chunks over words, "," and "\n"; a JSON text is a sequence of tokens.   *)
(* JSON values are tagged records; a Python dict is an insertion-ordered   *)
(* sequence of entries [k, v] with unique keys.                            *)
(***************************************************************************)
EXTENDS Integers, Sequences, FiniteSets, TLC

VARIABLES
    program,        \* "main" (main.py) or "app" (app.py): the module being run
    PYDANTIC_V2,    \* pydantic.VERSION.startswith("2."), fixed by the installation
    file,           \* text of interests.csv (local file or S3 object body)
    INTERESTS,      \* module-level taxonomy, set once at import
    pc,             \* control position of the process
    prompt,         \* fields embedded in the user message of the pending request
    requests,       \* calls of client.chat.completions.create in the current invocation
    fetches,        \* place-detail GETs issued by the current trigger (app.py)
    validations,    \* validate_json calls made by the current invocation
    content,        \* response.choices[0].message.content of the current invocation
    outcome,        \* how generate_interests ended in the current invocation
    result,         \* the PlaceInterests instance generate_interests returned
    input,          \* arguments of the current invocation: the event and the
                    \* environment (main.py), the form fields (app.py)
    place_details,  \* the record generate_interests is called with
    response,       \* lambda_handler's return value
    screen          \* Streamlit elements written by the current trigger

vars == <<program, PYDANTIC_V2, file, INTERESTS, pc, prompt, requests, fetches,
          validations, content, outcome, result, input, place_details, response,
          screen>>

None == [none |-> TRUE]

(***************************************************************************)
(* Bounds of the model.                                                    *)
(***************************************************************************)
MaxFileLen == 6     \* chunks in the taxonomy file
MaxSubs == 2        \* elements of a generated sub_interests array
MaxGroups == 2      \* groups of a generated multi-group interests array

(***************************************************************************)
(* Taxonomy loading: csv.reader over the lines of the file.                *)
(***************************************************************************)
RECURSIVE SeqsUpTo(_, _)
SeqsUpTo(S, n) ==
    IF n = 0 THEN {<<>>}
    ELSE LET shorter == SeqsUpTo(S, n - 1)
         IN  shorter \cup {Append(s, x) : s \in {t \in shorter : Len(t) = n - 1}, x \in S}

\* str.splitlines / iteration over the lines of a text file: a trailing
\* newline ends the last line and opens no further one.
RECURSIVE SplitLinesFrom(_, _, _)
SplitLinesFrom(text, i, line) ==
    IF i > Len(text) THEN (IF line = <<>> THEN <<>> ELSE <<line>>)
    ELSE IF text[i] = "\n" THEN <<line>> \o SplitLinesFrom(text, i + 1, <<>>)
    ELSE SplitLinesFrom(text, i + 1, Append(line, text[i]))

SplitLines(text) == SplitLinesFrom(text, 1, <<>>)

\* csv.reader on one line: an empty line is the empty row []; otherwise the
\* fields are the runs of text between the commas (a run may be empty).
RECURSIVE SplitFields(_, _, _)
SplitFields(line, i, field) ==
    IF i > Len(line) THEN <<field>>
    ELSE IF line[i] = "," THEN <<field>> \o SplitFields(line, i + 1, "")
    ELSE SplitFields(line, i + 1, field \o line[i])

CsvRow(line) == IF line = <<>> THEN <<>> ELSE SplitFields(line, 1, "")

CsvReader(lines) == [i \in 1..Len(lines) |-> CsvRow(lines[i])]

\* Faulty variant: takes the last field of each row.
FirstColumnLast(rows) ==
    LET kept == SelectSeq(rows, LAMBDA row : row # <<>>)
    IN  [i \in 1..Len(kept) |-> kept[i][Len(kept[i])]]

\* [row[0] for row in reader if row]
FirstColumn(rows) ==
    LET kept == SelectSeq(rows, LAMBDA row : row # <<>>)
    IN  [i \in 1..Len(kept) |-> kept[i][1]]

load_interests_from_csv(text) == FirstColumn(CsvReader(SplitLines(text)))

load_interests_from_s3(text) == FirstColumn(CsvReader(SplitLines(text)))

CsvChunks == {"Food", "x", ",", "\n"}
Files == SeqsUpTo(CsvChunks, MaxFileLen)

\* The file the request-handling specification imports with.
SampleFile == <<"Food", ",", "x", "\n", "\n", "Outdoors", ",", "y", "\n">>

(***************************************************************************)
(* JSON values, and the json module: loads (text -> value) and dumps       *)
(* (value -> text).                                                        *)
(***************************************************************************)
JStr(s) == [t |-> "str", s |-> s]
JNum(n) == [t |-> "num", n |-> n]
JNull == [t |-> "null"]
JArr(a) == [t |-> "arr", a |-> a]
JObj(o) == [t |-> "obj", o |-> o]
Entry(k, v) == [k |-> k, v |-> v]

Punct(c) == [k |-> c]
StrTok(s) == [k |-> "str", s |-> s]
NumTok(n) == [k |-> "num", n |-> n]
NullTok == [k |-> "null"]

RECURSIVE Flatten(_, _)
Flatten(parts, sep) ==
    IF Len(parts) = 0 THEN <<>>
    ELSE IF Len(parts) = 1 THEN parts[1]
    ELSE parts[1] \o sep \o Flatten(Tail(parts), sep)

\* json.dumps: members and elements in order, separated by commas.
RECURSIVE dumps(_)
dumps(v) ==
    CASE v.t = "str" -> <<StrTok(v.s)>>
      [] v.t = "num" -> <<NumTok(v.n)>>
      [] v.t = "null" -> <<NullTok>>
      [] v.t = "arr" ->
            <<Punct("[")>>
            \o Flatten([i \in 1..Len(v.a) |-> dumps(v.a[i])], <<Punct(",")>>)
            \o <<Punct("]")>>
      [] v.t = "obj" ->
            <<Punct("{")>>
            \o Flatten([i \in 1..Len(v.o) |->
                          <<StrTok(v.o[i].k), Punct(":")>> \o dumps(v.o[i].v)],
                       <<Punct(",")>>)
            \o <<Punct("}")>>

\* dict[k] = v: a repeated key keeps its first position and takes the new value.
DictSet(d, k, v) ==
    IF \E i \in 1..Len(d) : d[i].k = k
    THEN [i \in 1..Len(d) |-> IF d[i].k = k THEN Entry(k, v) ELSE d[i]]
    ELSE Append(d, Entry(k, v))

Failed == [ok |-> FALSE]
Parsed(v, next) == [ok |-> TRUE, v |-> v, next |-> next]
Kind(toks, i) == IF i <= Len(toks) THEN toks[i].k ELSE "eof"

\* The JSON decoder: a value starting at token i, and the token after it.
RECURSIVE ParseValue(_, _), ParseElements(_, _, _), ParseMembers(_, _, _)
ParseValue(toks, i) ==
    CASE Kind(toks, i) = "str" -> Parsed(JStr(toks[i].s), i + 1)
      [] Kind(toks, i) = "num" -> Parsed(JNum(toks[i].n), i + 1)
      [] Kind(toks, i) = "null" -> Parsed(JNull, i + 1)
      [] Kind(toks, i) = "[" ->
            IF Kind(toks, i + 1) = "]" THEN Parsed(JArr(<<>>), i + 2)
            ELSE ParseElements(toks, i + 1, <<>>)
      [] Kind(toks, i) = "{" ->
            IF Kind(toks, i + 1) = "}" THEN Parsed(JObj(<<>>), i + 2)
            ELSE ParseMembers(toks, i + 1, <<>>)
      [] OTHER -> Failed

ParseElements(toks, i, acc) ==
    LET r == ParseValue(toks, i)
    IN  IF ~r.ok THEN Failed
        ELSE IF Kind(toks, r.next) = "," THEN ParseElements(toks, r.next + 1, Append(acc, r.v))
        ELSE IF Kind(toks, r.next) = "]" THEN Parsed(JArr(Append(acc, r.v)), r.next + 1)
        ELSE Failed

ParseMembers(toks, i, acc) ==
    IF Kind(toks, i) # "str" \/ Kind(toks, i + 1) # ":" THEN Failed
    ELSE LET r == ParseValue(toks, i + 2)
         IN  IF ~r.ok THEN Failed
             ELSE IF Kind(toks, r.next) = ","
                  THEN ParseMembers(toks, r.next + 1, DictSet(acc, toks[i].s, r.v))
             ELSE IF Kind(toks, r.next) = "}"
                  THEN Parsed(JObj(DictSet(acc, toks[i].s, r.v)), r.next + 1)
             ELSE Failed

\* json.loads: one value and nothing after it, else JSONDecodeError.
loads(toks) ==
    LET r == ParseValue(toks, 1)
    IN  IF r.ok /\ r.next = Len(toks) + 1 THEN [ok |-> TRUE, v |-> r.v] ELSE Failed

(***************************************************************************)
(* pydantic: the models Interest and PlaceInterests, and validate_json.    *)
(* A validation yields [status |-> "ok", model |-> m], or a status naming  *)
(* the exception raised.                                                   *)
(***************************************************************************)
Digit(d) ==
    CASE d = 0 -> "0" [] d = 1 -> "1" [] d = 2 -> "2" [] d = 3 -> "3" [] d = 4 -> "4"
      [] d = 5 -> "5" [] d = 6 -> "6" [] d = 7 -> "7" [] d = 8 -> "8" [] d = 9 -> "9"

\* str(n) of a non-negative int
RECURSIVE IntStr(_)
IntStr(n) == IF n < 10 THEN Digit(n) ELSE IntStr(n \div 10) \o Digit(n % 10)

Valid(m) == [status |-> "ok", model |-> m]
Invalid == [status |-> "ValidationError"]
Crashed == [status |-> "TypeError"]

\* One element of the iterable given to dict(): a key/value pair when it has
\* exactly two items and the first is hashable.
IsPair(e) ==
    \/ e.t = "arr" /\ Len(e.a) = 2 /\ e.a[1].t \in {"str", "num", "null"}
    \/ e.t = "obj" /\ Len(e.o) = 2
    \/ e.t = "str" /\ Len(e.s) = 2

PairKey(e) ==
    CASE e.t = "arr" -> e.a[1]
      [] e.t = "obj" -> JStr(e.o[1].k)
      [] e.t = "str" -> JStr(SubSeq(e.s, 1, 1))

PairValue(e) ==
    CASE e.t = "arr" -> e.a[2]
      [] e.t = "obj" -> JStr(e.o[2].k)
      [] e.t = "str" -> JStr(SubSeq(e.s, 2, 2))

RECURSIVE DictOfPairs(_, _, _)
DictOfPairs(elems, i, acc) ==
    IF i > Len(elems) THEN acc
    ELSE DictOfPairs(elems, i + 1, DictSet(acc, PairKey(elems[i]).s, PairValue(elems[i])))

\* What a model class makes of the value it is given, before its fields are
\* read.  A dict is taken as it is.  Pydantic 2 accepts nothing else.
\* Pydantic 1 tries dict(value): an iterable of pairs becomes a dict, and
\* cls(**d) then raises TypeError when a key is not a string.
AsDict(v, v2) ==
    IF v.t = "obj" THEN [kind |-> "dict", d |-> v.o]
    ELSE IF v2 THEN [kind |-> "error"]
    ELSE IF v.t = "str" /\ Len(v.s) = 0 THEN [kind |-> "dict", d |-> <<>>]
    ELSE IF v.t = "arr" /\ \A i \in 1..Len(v.a) : IsPair(v.a[i])
         THEN IF \A i \in 1..Len(v.a) : PairKey(v.a[i]).t = "str"
              THEN [kind |-> "dict", d |-> DictOfPairs(v.a, 1, <<>>)]
              ELSE [kind |-> "badkeys"]
    ELSE [kind |-> "error"]

Has(d, k) == \E i \in 1..Len(d) : d[i].k = k
Get(d, k) == d[CHOOSE i \in 1..Len(d) : d[i].k = k].v

\* Faulty variant: the string validator of pydantic 1 under both versions.
StrValidatorCoercing(v, v2) ==
    IF v.t = "str" THEN [ok |-> TRUE, s |-> v.s]
    ELSE IF v.t = "num" THEN [ok |-> TRUE, s |-> IntStr(v.n)]
    ELSE Failed

\* A field of type str: pydantic 1 coerces a number with str(), pydantic 2
\* accepts strings only.
StrValidator(v, v2) ==
    IF v.t = "str" THEN [ok |-> TRUE, s |-> v.s]
    ELSE IF v.t = "num" /\ ~v2 THEN [ok |-> TRUE, s |-> IntStr(v.n)]
    ELSE Failed

\* A field of type List[str]: a list, each element a valid str; no length
\* constraint.
StrListValid(v, v2) ==
    /\ v.t = "arr"
    /\ \A i \in 1..Len(v.a) : StrValidator(v.a[i], v2).ok

StrListOf(v, v2) == [i \in 1..Len(v.a) |-> StrValidator(v.a[i], v2).s]

\* class Interest: main_interest: str, sub_interests: List[str], both
\* required; other keys are ignored.  As a field of another model, every
\* failure of the class, a TypeError too, is reported as a validation error.
InterestValid(v, v2) ==
    LET c == AsDict(v, v2)
    IN  /\ c.kind = "dict"
        /\ Has(c.d, "main_interest") /\ StrValidator(Get(c.d, "main_interest"), v2).ok
        /\ Has(c.d, "sub_interests") /\ StrListValid(Get(c.d, "sub_interests"), v2)

InterestOf(v, v2) ==
    LET c == AsDict(v, v2)
    IN  [main_interest |-> StrValidator(Get(c.d, "main_interest"), v2).s,
         sub_interests |-> StrListOf(Get(c.d, "sub_interests"), v2)]

\* Faulty variant: PlaceInterests without min_items.
MinItemsNone == 1 - 1

\* interests: List[Interest] = Field(..., min_items=1)
MinItems == 1

\* Faulty variant: the groups in reverse order.
InterestsOfReversed(a, v2) == [i \in 1..Len(a) |-> InterestOf(a[Len(a) + 1 - i], v2)]

InterestsOf(a, v2) == [i \in 1..Len(a) |-> InterestOf(a[i], v2)]

\* class PlaceInterests, validated at the top level (parse_raw /
\* model_validate_json after the text is decoded).
PlaceInterestsValidate(v, v2) ==
    LET c == AsDict(v, v2)
    IN  IF c.kind = "badkeys" THEN Crashed
        ELSE IF c.kind # "dict" THEN Invalid
        ELSE IF ~Has(c.d, "interests") THEN Invalid
        ELSE LET f == Get(c.d, "interests")
             IN  IF /\ f.t = "arr"
                    /\ Len(f.a) >= MinItems
                    /\ \A i \in 1..Len(f.a) : InterestValid(f.a[i], v2)
                 THEN Valid([interests |-> InterestsOf(f.a, v2)])
                 ELSE Invalid

\* validate_json(json_data, model): decode the text, then validate the value.
\* Undecodable text is a validation error of either version.
validate_json(json_data, v2) ==
    LET r == loads(json_data)
    IN  IF r.ok THEN PlaceInterestsValidate(r.v, v2) ELSE Invalid

\* BaseModel.json() of a PlaceInterests instance
ModelJson(m) ==
    dumps(JObj(<<Entry("interests",
        JArr([i \in 1..Len(m.interests) |->
            JObj(<<Entry("main_interest", JStr(m.interests[i].main_interest)),
                   Entry("sub_interests",
                         JArr([j \in 1..Len(m.interests[i].sub_interests) |->
                                  JStr(m.interests[i].sub_interests[j])]))>>)]))>>))

(***************************************************************************)
(* Place details and the prompt.  A dict with optional keys is a function  *)
(* on the keys it holds.                                                   *)
(***************************************************************************)
DictGet(d, k, default) == IF k \in DOMAIN d THEN d[k] ELSE default

RECURSIVE Join(_, _)
Join(parts, sep) ==
    IF Len(parts) = 0 THEN ""
    ELSE IF Len(parts) = 1 THEN parts[1]
    ELSE parts[1] \o sep \o Join(Tail(parts), sep)

Restrict(f, D) == [k \in D |-> f[k]]

PlaceFields == {"name", "formatted_address", "types", "editorial_summary"}

FullPlace(summary) ==
    [name |-> "Cafe Luna", formatted_address |-> "1 Main St",
     types |-> <<"cafe", "food">>, editorial_summary |-> summary]

\* Well-typed place-detail records: every subset of the fields, the summary
\* with or without its overview.
PlaceDetails ==
    {Restrict(FullPlace(summary), D) :
        D \in SUBSET PlaceFields, summary \in {<<>>, [overview |-> "A cosy cafe"]}}

\* The values the f-string of generate_interests embeds in the user message.
PromptFields(details, taxonomy) ==
    [name |-> DictGet(details, "name", "N/A"),
     address |-> DictGet(details, "formatted_address", "N/A"),
     types |-> Join(DictGet(details, "types", <<>>), ", "),
     description |-> DictGet(DictGet(details, "editorial_summary", <<>>), "overview", "N/A"),
     interests |-> Join(taxonomy, ", ")]

(***************************************************************************)
(* generate_interests after the completion has arrived.                    *)
(***************************************************************************)
Returned(m, n) == [kind |-> "return", model |-> m, validations |-> n]
Raised(exc, prefix, detail, n) ==
    [kind |-> "raise", exc |-> exc, prefix |-> prefix, detail |-> detail, validations |-> n]

InvalidJsonPrefix == "Invalid JSON returned by API: "
StructurePrefix == "API response doesn't match expected structure: "

\* Faulty variant: the decoded value is validated without the failure of the
\* decoder being told apart.
ParseAndValidateOneKind(text, v2) ==
    LET v == validate_json(text, v2)
    IN  CASE v.status = "ok" -> Returned(v.model, 1)
          [] v.status = "ValidationError" ->
                Raised("ValueError", StructurePrefix, "ValidationError", 1)
          [] v.status = "TypeError" ->
                Raised("TypeError", "", "keywords must be strings", 1)

\* try: parsed_json = json.loads(content)
\*      return validate_json(json.dumps(parsed_json), PlaceInterests)
\* except json.JSONDecodeError / except pydantic.ValidationError
ParseAndValidate(text, v2) ==
    LET r == loads(text)
    IN  IF ~r.ok THEN Raised("ValueError", InvalidJsonPrefix, "JSONDecodeError", 0)
        ELSE LET v == validate_json(dumps(r.v), v2)
             IN  CASE v.status = "ok" -> Returned(v.model, 1)
                   [] v.status = "ValidationError" ->
                         Raised("ValueError", StructurePrefix, "ValidationError", 1)
                   [] v.status = "TypeError" ->
                         Raised("TypeError", "", "keywords must be strings", 1)

\* client.chat.completions.create raising: nothing in generate_interests
\* catches it.
TransportError == Raised("APIConnectionError", "", "Connection error.", 0)

\* str(e)
ExcText(o) == o.prefix \o o.detail

(***************************************************************************)
(* The completions the model may return.                                   *)
(***************************************************************************)
MainValues == {JStr("Food"), JStr("Nightlife"), JNum(7), JNull}
SubElements == {JStr("Cafes"), JStr("Bakeries"), JNum(12)}
SubValues == {JArr(a) : a \in SeqsUpTo(SubElements, MaxSubs)} \cup {JStr("Cafes")}

Group(main, subs) == JObj(<<Entry("main_interest", main), Entry("sub_interests", subs)>>)

PairListGroup ==
    JArr(<<JArr(<<JStr("main_interest"), JStr("Food")>>),
           JArr(<<JStr("sub_interests"), JArr(<<JStr("Cafes")>>)>>)>>)

Groups ==
    {JObj(m \o s) :
        m \in {<<>>} \cup {<<Entry("main_interest", x)>> : x \in MainValues},
        s \in {<<>>} \cup {<<Entry("sub_interests", y)>> : y \in SubValues}}
    \cup {JStr("Food"), JNull, PairListGroup}

FoodGroup == Group(JStr("Food"), JArr(<<JStr("Cafes"), JStr("Bakeries")>>))

CoreGroups ==
    {FoodGroup,
     Group(JStr("Nightlife"), JArr(<<JStr("Bakeries")>>)),
     Group(JStr("Food"), JArr(<<>>)),
     Group(JNum(7), JArr(<<JStr("Cafes")>>))}

InterestsValues ==
    {JArr(<<g>>) : g \in Groups}
    \cup {JArr(a) : a \in SeqsUpTo(CoreGroups, MaxGroups)}
    \cup {JStr("Food"), JNull}

Document(interests) == JObj(<<Entry("interests", interests)>>)

\* {"interests": [{"main_interest": "Food", "sub_interests": ["Cafes", "Bakeries"]}]}
ExampleDocument == Document(JArr(<<FoodGroup>>))

Documents ==
    {Document(v) : v \in InterestsValues}
    \cup {JObj(<<>>),
          JObj(<<Entry("interests", JArr(<<FoodGroup>>)), Entry("note", JStr("x"))>>),
          JObj(<<Entry("note", JStr("x"))>>),
          JArr(<<>>), JArr(<<JStr("Food")>>), JArr(<<FoodGroup>>),
          JNull, JNum(7), JStr("Food"), JStr(""),
          JArr(<<JArr(<<JStr("interests"), JArr(<<FoodGroup>>)>>)>>),
          JArr(<<JArr(<<JNum(7), JNull>>)>>)}

\* Texts that are no JSON document: every proper prefix of the example, a
\* document followed by more text, a missing colon.
BrokenTexts ==
    {SubSeq(dumps(ExampleDocument), 1, n) : n \in 0..(Len(dumps(ExampleDocument)) - 1)}
    \cup {dumps(ExampleDocument) \o <<Punct("}")>>,
          <<Punct("{"), StrTok("interests"), Punct("["), Punct("]"), Punct("}")>>}

\* A document that repeats a key, which only a hand-written text can.
RepeatedKeyText ==
    <<Punct("{"), StrTok("interests"), Punct(":"), Punct("["), Punct("]"), Punct(",")>>
    \o Tail(dumps(ExampleDocument))

Contents == {dumps(v) : v \in Documents} \cup BrokenTexts \cup {RepeatedKeyText}

(***************************************************************************)
(* Inputs of the two shells.                                               *)
(***************************************************************************)
Events == {<<>>} \cup {[place_details |-> d] : d \in PlaceDetails \cup {None}}
Environments == {<<>>, [OPENAI_API_KEY |-> ""], [OPENAI_API_KEY |-> "sk-test"]}
FormValues == {"", "filled"}
Statuses == {"OK", "ZERO_RESULTS", "REQUEST_DENIED"}
PlaceBodies ==
    {[status |-> "OK", result |-> d] : d \in PlaceDetails}
    \cup {[status |-> st] : st \in Statuses \ {"OK"}}
    \cup {[status |-> "UNKNOWN_ERROR", result |-> <<>>]}

Write(text) == [kind |-> "write", text |-> text]
Subheader(text) == [kind |-> "subheader", text |-> text]
Error(text) == [kind |-> "error", text |-> text]
Warning(text) == [kind |-> "warning", text |-> text]
DebugWrite(text) == [kind |-> "write", text |-> "Debug - API Response:", value |-> text]

ErrorBody(message) == dumps(JObj(<<Entry("error", JStr(message))>>))

(***************************************************************************)
(* Import of the module: the taxonomy is loaded once.                      *)
(***************************************************************************)
Fresh ==
    /\ prompt = None /\ requests = 0 /\ fetches = 0 /\ validations = 0
    /\ content = None /\ outcome = None /\ result = None /\ input = None
    /\ place_details = None /\ response = None /\ screen = <<>>

InitWith(files) ==
    /\ program \in {"main", "app"}
    /\ PYDANTIC_V2 \in BOOLEAN
    /\ file \in files
    /\ INTERESTS = <<>>
    /\ pc = "import"
    /\ Fresh

Init == InitWith({SampleFile})

InitTaxonomy == InitWith(Files)

Invocation == <<prompt, requests, fetches, validations, content, outcome, result,
                input, place_details, response, screen>>

\* main.py: INTERESTS = load_interests_from_s3(S3_BUCKET_NAME, S3_FILE_NAME)
ImportMain ==
    /\ pc = "import" /\ program = "main"
    /\ INTERESTS' = load_interests_from_s3(file)
    /\ pc' = "idle"
    /\ UNCHANGED <<program, PYDANTIC_V2, file, Invocation>>

\* get_object or the decoding raising: ValueError at import, no handler.
ImportMainFails ==
    /\ pc = "import" /\ program = "main"
    /\ pc' = "import_failed"
    /\ UNCHANGED <<program, PYDANTIC_V2, file, INTERESTS, Invocation>>

\* app.py: INTERESTS = load_interests_from_csv('interests.csv')
ImportApp ==
    /\ pc = "import" /\ program = "app"
    /\ INTERESTS' = load_interests_from_csv(file)
    /\ pc' = "idle"
    /\ UNCHANGED <<program, PYDANTIC_V2, file, Invocation>>

NextTaxonomy == ImportMain \/ ImportMainFails \/ ImportApp

SpecTaxonomy == InitTaxonomy /\ [][NextTaxonomy]_vars

(***************************************************************************)
(* main.py: lambda_handler.                                                *)
(***************************************************************************)
Static == <<program, PYDANTIC_V2, file, INTERESTS>>

\* Faulty variant: only the event is looked at.
MissingParametersEventOnly(event, env) ==
    \/ "place_details" \notin DOMAIN event
    \/ event["place_details"] = None
    \/ DOMAIN event["place_details"] = {}

\* Faulty variant: the handler tests for the key, not for a truthy value.
MissingParametersByKey(event, env) ==
    \/ "place_details" \notin DOMAIN event
    \/ "OPENAI_API_KEY" \notin DOMAIN env

\* not place_details or not openai_api_key, on the values of event.get and
\* os.environ.get: an absent key, None, an empty dict, an empty string.
MissingParameters(event, env) ==
    \/ "place_details" \notin DOMAIN event
    \/ event["place_details"] = None
    \/ DOMAIN event["place_details"] = {}
    \/ "OPENAI_API_KEY" \notin DOMAIN env
    \/ env["OPENAI_API_KEY"] = ""

\* Faulty variant: one retry after a failure.
RetriesAfterFailureOnce(o) == IF o.kind = "raise" THEN 1 ELSE 0

\* Requests generate_interests issues after its first one has been answered.
RetriesAfterFailure(o) == 0

\* lambda_handler up to its first blocking call: the 400 response, or
\* generate_interests up to client.chat.completions.create.
LambdaHandler(event, env) ==
    /\ pc = "idle" /\ program = "main"
    /\ input' = [event |-> event, env |-> env]
    /\ IF MissingParameters(event, env)
       THEN /\ response' = [statusCode |-> 400,
                            body |-> ErrorBody("Missing required parameters")]
            /\ pc' = "returned"
            /\ UNCHANGED <<place_details, prompt, requests>>
       ELSE /\ place_details' = event["place_details"]
            /\ prompt' = PromptFields(event["place_details"], INTERESTS)
            /\ requests' = requests + 1
            /\ pc' = "awaiting_completion"
            /\ UNCHANGED response
    /\ UNCHANGED <<Static, fetches, validations, content, outcome, result, screen>>

\* Faulty variant: a failure is answered with status 200.
HandlerResponseAlwaysOk(o) ==
    IF o.kind = "return"
    THEN [statusCode |-> 200, body |-> ModelJson(o.model)]
    ELSE [statusCode |-> 200, body |-> ErrorBody(ExcText(o))]

\* try: ... return {"statusCode": 200, "body": interests.json()}
\* except Exception as e: return {"statusCode": 500, "body": json.dumps({"error": str(e)})}
HandlerResponse(o) ==
    IF o.kind = "return"
    THEN [statusCode |-> 200, body |-> ModelJson(o.model)]
    ELSE [statusCode |-> 500, body |-> ErrorBody(ExcText(o))]

\* The rest of lambda_handler once generate_interests has ended with o.
HandlerReturns(o) ==
    /\ outcome' = o
    /\ validations' = o.validations
    /\ requests' = requests + RetriesAfterFailure(o)
    /\ result' = IF o.kind = "return" THEN o.model ELSE None
    /\ response' = HandlerResponse(o)
    /\ pc' = "returned"
    /\ UNCHANGED <<Static, fetches, input, place_details, prompt, screen>>

\* The completion arrives: the rest of generate_interests and of the handler.
HandlerCompletion(text) ==
    /\ pc = "awaiting_completion" /\ program = "main"
    /\ content' = text
    /\ HandlerReturns(ParseAndValidate(text, PYDANTIC_V2))

\* The request fails in transport: the handler's except clause.
HandlerTransportError ==
    /\ pc = "awaiting_completion" /\ program = "main"
    /\ UNCHANGED content
    /\ HandlerReturns(TransportError)

\* The handler has returned; the process waits for its next event.
NextEvent ==
    /\ pc = "returned"
    /\ pc' = "idle"
    /\ prompt' = None /\ requests' = 0 /\ fetches' = 0 /\ validations' = 0
    /\ content' = None /\ outcome' = None /\ result' = None /\ input' = None
    /\ place_details' = None /\ response' = None /\ screen' = <<>>
    /\ UNCHANGED Static

(***************************************************************************)
(* app.py: the script run by a click on "Generate Interests".              *)
(***************************************************************************)
PlaceLines(details) ==
    <<Subheader("Place Details:"),
      Write("Name: " \o DictGet(details, "name", "N/A")),
      Write("Address: " \o DictGet(details, "formatted_address", "N/A")),
      Write("Types: " \o Join(DictGet(details, "types", <<>>), ", ")),
      Write("Description: "
            \o DictGet(DictGet(details, "editorial_summary", <<>>), "overview", "N/A"))>>

\* for interest in interests.interests: ... for sub_interest in ...
InterestLines(m) ==
    Flatten([i \in 1..Len(m.interests) |->
                <<Write("- " \o m.interests[i].main_interest)>>
                \o [j \in 1..Len(m.interests[i].sub_interests) |->
                       Write("  - " \o m.interests[i].sub_interests[j])]],
            <<>>)

\* Faulty variant: a body that carries a result is taken to be good.
StatusOkByResult(body) == "result" \in DOMAIN body

\* place_details['status'] == 'OK'
StatusOk(body) == body.status = "OK"

\* The click, up to requests.get in get_place_details, or the warning.
ButtonClick(place_id, google_api_key, openai_api_key) ==
    /\ pc = "idle" /\ program = "app"
    /\ input' = [place_id |-> place_id, google_api_key |-> google_api_key,
                 openai_api_key |-> openai_api_key]
    /\ IF place_id # "" /\ google_api_key # "" /\ openai_api_key # ""
       THEN /\ fetches' = fetches + 1
            /\ pc' = "awaiting_place"
            /\ UNCHANGED screen
       ELSE /\ screen' = <<Warning("Please enter Google Place ID, Google API Key, and OpenAI API Key.")>>
            /\ pc' = "rendered"
            /\ UNCHANGED fetches
    /\ UNCHANGED <<Static, prompt, requests, validations, content, outcome, result,
                   place_details, response>>

\* The mapping API answers: the details are shown and generate_interests
\* runs up to client.chat.completions.create, or the error is shown.
PlaceDetailsReply(body) ==
    /\ pc = "awaiting_place" /\ program = "app"
    /\ place_details' = body
    /\ IF StatusOk(body)
       THEN /\ screen' = PlaceLines(body.result)
            /\ prompt' = PromptFields(body.result, INTERESTS)
            /\ requests' = requests + 1
            /\ pc' = "awaiting_completion"
       ELSE /\ screen' = <<Error("Error fetching place details: " \o body.status)>>
            /\ pc' = "rendered"
            /\ UNCHANGED <<prompt, requests>>
    /\ UNCHANGED <<Static, fetches, validations, content, outcome, result, input, response>>

\* requests.get raising: no handler in the script, the run ends with the
\* exception shown.
PlaceFetchFails ==
    /\ pc = "awaiting_place" /\ program = "app"
    /\ screen' = <<[kind |-> "exception", text |-> "ConnectionError"]>>
    /\ pc' = "rendered"
    /\ UNCHANGED <<Static, prompt, requests, fetches, validations, content, outcome,
                   result, input, place_details, response>>

\* The rest of the script once generate_interests has ended with o.
AppRenders(o, shown) ==
    /\ outcome' = o
    /\ validations' = o.validations
    /\ requests' = requests + RetriesAfterFailure(o)
    /\ IF o.kind = "return"
       THEN /\ result' = o.model
            /\ screen' = screen \o shown \o <<Subheader("Generated Interests:")>>
                         \o InterestLines(o.model)
       ELSE /\ result' = None
            /\ screen' = screen \o shown
                         \o <<Error("Error generating interests: " \o ExcText(o))>>
    /\ pc' = "rendered"
    /\ UNCHANGED <<Static, fetches, input, place_details, prompt, response>>

\* The completion arrives: the debug output, the rest of generate_interests,
\* the rendering.
AppCompletion(text) ==
    /\ pc = "awaiting_completion" /\ program = "app"
    /\ content' = text
    /\ AppRenders(ParseAndValidate(text, PYDANTIC_V2), <<DebugWrite(text)>>)

\* The request fails in transport: the script's except clause.
AppTransportError ==
    /\ pc = "awaiting_completion" /\ program = "app"
    /\ UNCHANGED content
    /\ AppRenders(TransportError, <<>>)

\* The run has ended; the form waits for the next click.
Rerun ==
    /\ pc = "rendered"
    /\ pc' = "idle"
    /\ prompt' = None /\ requests' = 0 /\ fetches' = 0 /\ validations' = 0
    /\ content' = None /\ outcome' = None /\ result' = None /\ input' = None
    /\ place_details' = None /\ response' = None /\ screen' = <<>>
    /\ UNCHANGED Static

Next ==
    \/ ImportMain
    \/ ImportMainFails
    \/ ImportApp
    \/ \E event \in Events, env \in Environments : LambdaHandler(event, env)
    \/ HandlerTransportError
    \/ \E text \in Contents : HandlerCompletion(text)
    \/ NextEvent
    \/ \E place_id \in FormValues, google_api_key \in FormValues, openai_api_key \in FormValues :
          ButtonClick(place_id, google_api_key, openai_api_key)
    \/ \E body \in PlaceBodies : PlaceDetailsReply(body)
    \/ PlaceFetchFails
    \/ AppTransportError
    \/ \E text \in Contents : AppCompletion(text)
    \/ Rerun

Spec == Init /\ [][Next]_vars

(***************************************************************************)
(* Properties.                                                             *)
(***************************************************************************)
Completed == outcome # None
Succeeded == Completed /\ outcome.kind = "return"
Answered == Completed /\ outcome # TransportError
Document_ == loads(content).v

InvalidFormat(o) == o.kind = "raise" /\ o.exc = "ValueError" /\ o.prefix = InvalidJsonPrefix
SchemaMismatch(o) == o.kind = "raise" /\ o.exc = "ValueError" /\ o.prefix = StructurePrefix

\* The structural contract read strictly: an object whose "interests" is a
\* non-empty array of objects, each with a string "main_interest" and an
\* array of strings "sub_interests".
StrictGroup(e) ==
    /\ e.t = "obj"
    /\ Has(e.o, "main_interest") /\ Get(e.o, "main_interest").t = "str"
    /\ Has(e.o, "sub_interests") /\ Get(e.o, "sub_interests").t = "arr"
    /\ \A j \in 1..Len(Get(e.o, "sub_interests").a) : Get(e.o, "sub_interests").a[j].t = "str"

StrictDocument(v) ==
    /\ v.t = "obj"
    /\ Has(v.o, "interests") /\ Get(v.o, "interests").t = "arr"
    /\ Len(Get(v.o, "interests").a) >= 1
    /\ \A i \in 1..Len(Get(v.o, "interests").a) : StrictGroup(Get(v.o, "interests").a[i])

\* C1 as stated: a result that is returned has at least one group, and every
\* group of it has at least one sub-interest.
C1_Original ==
    Succeeded =>
        /\ Len(result.interests) >= 1
        /\ \A i \in 1..Len(result.interests) : Len(result.interests[i].sub_interests) >= 1

\* C1 (amended): a result that is returned has at least one group, and a
\* decodable response whose interests list is empty is rejected as a schema
\* mismatch; the length of a group's sub_interests is not constrained.
C1_NonEmptyInterests ==
    /\ Succeeded => Len(result.interests) >= 1
    /\ (Answered /\ loads(content).ok /\ Document_ = Document(JArr(<<>>)))
          => SchemaMismatch(outcome) /\ result = None

C1_Witness ==
    /\ Succeeded
    /\ Len(result.interests) = 2
    /\ \E i \in 1..Len(result.interests) : result.interests[i].sub_interests = <<>>

\* C2 as stated: a response that decodes but is not of the strict structure
\* fails as a schema mismatch and returns nothing.
C2_Original ==
    (Answered /\ loads(content).ok /\ ~StrictDocument(Document_))
        => SchemaMismatch(outcome) /\ result = None

\* The violations of the structure that neither version of the validator
\* converts away: a top-level null or number, an object without "interests",
\* an "interests" that is no array or is empty, a group that is null, a
\* number or an object lacking a field, a "main_interest" that is neither a
\* string nor a number, a "sub_interests" that is no array or holds an
\* element that is neither a string nor a number.
HardGroupViolation(e) ==
    \/ e.t \in {"null", "num"}
    \/ /\ e.t = "obj"
       /\ \/ ~Has(e.o, "main_interest")
          \/ ~Has(e.o, "sub_interests")
          \/ Get(e.o, "main_interest").t \notin {"str", "num"}
          \/ Get(e.o, "sub_interests").t # "arr"
          \/ \E j \in 1..Len(Get(e.o, "sub_interests").a) :
                Get(e.o, "sub_interests").a[j].t \notin {"str", "num"}

HardViolation(v) ==
    \/ v.t \in {"null", "num"}
    \/ /\ v.t = "obj"
       /\ \/ ~Has(v.o, "interests")
          \/ Get(v.o, "interests").t # "arr"
          \/ Len(Get(v.o, "interests").a) = 0
          \/ \E i \in 1..Len(Get(v.o, "interests").a) :
                HardGroupViolation(Get(v.o, "interests").a[i])

\* C2 (amended): under pydantic 2 every decodable response that is not of
\* the strict structure fails as a schema mismatch; under pydantic 1 so does
\* every response with a violation that the validator does not convert away.
C2_SchemaMismatch ==
    (Answered /\ loads(content).ok) =>
        /\ (PYDANTIC_V2 /\ ~StrictDocument(Document_))
              => SchemaMismatch(outcome) /\ result = None
        /\ (~PYDANTIC_V2 /\ HardViolation(Document_))
              => SchemaMismatch(outcome) /\ result = None

C2_Witness ==
    /\ Answered /\ loads(content).ok
    /\ PYDANTIC_V2
    /\ Document_ = Document(JArr(<<Group(JNum(7), JArr(<<JStr("Cafes")>>))>>))
    /\ SchemaMismatch(outcome) /\ result = None

\* C3 as stated: text that does not decode fails as an invalid format before
\* any validation and returns nothing, and classify always ends in one of
\* Ok, invalid format, schema mismatch.
C3_Original ==
    /\ (Answered /\ ~loads(content).ok)
          => InvalidFormat(outcome) /\ validations = 0 /\ result = None
    /\ Completed => Succeeded \/ InvalidFormat(outcome) \/ SchemaMismatch(outcome)

\* A top-level list of pairs one of whose keys is not a string.
NonStringKeyPairs(v) ==
    /\ v.t = "arr"
    /\ \A i \in 1..Len(v.a) : v.a[i].t = "arr" /\ Len(v.a[i].a) = 2
    /\ \E i \in 1..Len(v.a) : v.a[i].a[1].t \in {"num", "null"}

\* C3 (amended): text that does not decode fails as an invalid format before
\* any validation and returns nothing; a call that received a response ends
\* in one of Ok, invalid format, schema mismatch, except that under pydantic 1
\* a top-level list of pairs with a non-string key ends in a TypeError; a
\* call whose request failed in transport ends in that failure.
C3_InvalidFormat ==
    /\ (Answered /\ ~loads(content).ok)
          => InvalidFormat(outcome) /\ validations = 0 /\ result = None
    /\ Answered =>
          \/ Succeeded /\ result = outcome.model
          \/ InvalidFormat(outcome) /\ ~loads(content).ok
          \/ SchemaMismatch(outcome) /\ validations = 1
          \/ /\ outcome.kind = "raise" /\ outcome.exc = "TypeError"
             /\ ~PYDANTIC_V2 /\ NonStringKeyPairs(Document_)
    /\ (Completed /\ ~Answered) => result = None /\ validations = 0

C3_Witness ==
    /\ Answered
    /\ content = SubSeq(dumps(ExampleDocument), 1, 4)
    /\ InvalidFormat(outcome)

InHandler == program = "main" /\ input # None
ErrorOnly(body) ==
    /\ loads(body).ok
    /\ loads(body).v.t = "obj"
    /\ Len(loads(body).v.o) = 1
    /\ loads(body).v.o[1].k = "error"

\* C4: an invocation whose event has no place_details key, or whose
\* environment has no OPENAI_API_KEY, has returned status 400 with an error
\* body and has issued no model request.
C4_MissingInput ==
    (/\ InHandler
     /\ \/ "place_details" \notin DOMAIN input.event
        \/ "OPENAI_API_KEY" \notin DOMAIN input.env)
        => /\ pc = "returned"
           /\ response.statusCode = 400
           /\ ErrorOnly(response.body)
           /\ requests = 0 /\ outcome = None

C4_Witness ==
    /\ InHandler
    /\ "place_details" \in DOMAIN input.event
    /\ input.event["place_details"] = FullPlace(<<>>)
    /\ "OPENAI_API_KEY" \notin DOMAIN input.env
    /\ response.statusCode = 400
    /\ requests = 0

\* C5: an invocation with its inputs present returns 200 with the validated
\* result serialized exactly when generate_interests returned, and 500 with
\* a body holding only an error field when it raised, whatever it raised.
C5_AllOrNothing ==
    (InHandler /\ pc = "returned" /\ ~MissingParameters(input.event, input.env))
        => /\ Completed
           /\ response.statusCode \in {200, 500}
           /\ response.statusCode = 200 <=> Succeeded
           /\ Succeeded =>
                 /\ loads(response.body).ok
                 /\ PlaceInterestsValidate(loads(response.body).v, PYDANTIC_V2) = Valid(result)
                 /\ StrictDocument(loads(response.body).v)
           /\ ~Succeeded => ErrorOnly(response.body) /\ result = None

C5_Witness ==
    /\ InHandler /\ pc = "returned"
    /\ Completed /\ SchemaMismatch(outcome)
    /\ response.statusCode = 500
    /\ ErrorOnly(response.body)

C7_StatusGate ==
    program = "app" =>
        /\ requests >= 1 =>
              fetches = 1 /\ place_details # None /\ place_details.status = "OK"
        /\ (place_details # None /\ place_details.status # "OK")
              => /\ pc = "rendered"
                 /\ requests = 0 /\ outcome = None
                 /\ Len(screen) = 1 /\ screen[1].kind = "error"

C7_Witness ==
    /\ program = "app"
    /\ place_details # None
    /\ place_details.status = "ZERO_RESULTS"
    /\ fetches = 1 /\ requests = 0
    /\ screen = <<Error("Error fetching place details: ZERO_RESULTS")>>

\* The groups of a strict document, label for label.
GroupsAsGiven(v) ==
    [i \in 1..Len(Get(v.o, "interests").a) |->
        LET e == Get(v.o, "interests").a[i]
        IN  [main_interest |-> Get(e.o, "main_interest").s,
             sub_interests |->
                [j \in 1..Len(Get(e.o, "sub_interests").a) |->
                    Get(e.o, "sub_interests").a[j].s]]]

\* C8 as stated: a response that passes validation is an object whose groups
\* are returned one for one, in order, their labels unchanged.
C8_Original ==
    Succeeded =>
        /\ StrictDocument(Document_)
        /\ result.interests = GroupsAsGiven(Document_)

\* C8 (amended): a response of the strict structure that passes validation
\* is returned group for group, in order, with its labels unchanged, in the
\* taxonomy or not; under pydantic 2 no other response passes validation.
C8_Verbatim ==
    Succeeded =>
        /\ StrictDocument(Document_) => result.interests = GroupsAsGiven(Document_)
        /\ PYDANTIC_V2 => StrictDocument(Document_)

C8_Witness ==
    /\ Succeeded
    /\ StrictDocument(Document_)
    /\ Len(result.interests) = 2
    /\ result.interests[1].main_interest = "Nightlife"
    /\ result.interests[2] = [main_interest |-> "Food", sub_interests |-> <<"Cafes", "Bakeries">>]
    /\ \A i \in 1..Len(INTERESTS) : INTERESTS[i] # "Nightlife"

\* The text of a row up to its first comma.
RECURSIVE UpToComma(_)
UpToComma(line) ==
    IF line = <<>> \/ Head(line) = "," THEN "" ELSE Head(line) \o UpToComma(Tail(line))

RECURSIVE LabelsOf(_)
LabelsOf(rows) ==
    IF rows = <<>> THEN <<>>
    ELSE (IF Head(rows) = <<>> THEN <<>> ELSE <<UpToComma(Head(rows))>>) \o LabelsOf(Tail(rows))

NonBlank(rows) == Cardinality({i \in 1..Len(rows) : rows[i] # <<>>})

\* C9: once loaded, the taxonomy is the text before the first comma of every
\* non-blank row of the file, in row order, one label per non-blank row.
C9_FirstFields ==
    pc = "idle" =>
        /\ INTERESTS = LabelsOf(SplitLines(file))
        /\ Len(INTERESTS) = NonBlank(SplitLines(file))

C9_Witness ==
    /\ pc = "idle"
    /\ file = <<"Food", ",", "x", "\n", "\n", "Food">>
    /\ INTERESTS = <<"Food", "Food">>

\* C10: an event whose place_details is an empty dict, and an environment
\* whose OPENAI_API_KEY is the empty string, are answered with status 400
\* and no model request; the handler never calls generate_interests with an
\* empty record; generate_interests renders a missing name, address or
\* overview as "N/A".
C10_Truthiness ==
    /\ (/\ InHandler
        /\ \/ /\ "place_details" \in DOMAIN input.event
              /\ input.event["place_details"] # None
              /\ DOMAIN input.event["place_details"] = {}
           \/ /\ "OPENAI_API_KEY" \in DOMAIN input.env
              /\ input.env["OPENAI_API_KEY"] = "")
          => /\ pc = "returned"
             /\ response.statusCode = 400
             /\ requests = 0 /\ outcome = None
    /\ (program = "main" /\ place_details # None) => DOMAIN place_details # {}
    /\ prompt # None =>
          LET details == IF program = "main" THEN place_details ELSE place_details.result
          IN  /\ "name" \notin DOMAIN details => prompt.name = "N/A"
              /\ "formatted_address" \notin DOMAIN details => prompt.address = "N/A"
              /\ ("editorial_summary" \notin DOMAIN details
                     \/ "overview" \notin DOMAIN details["editorial_summary"])
                    => prompt.description = "N/A"

C10_Witness ==
    /\ InHandler
    /\ "place_details" \in DOMAIN input.event
    /\ input.event["place_details"] # None
    /\ DOMAIN input.event["place_details"] = {}
    /\ "OPENAI_API_KEY" \in DOMAIN input.env
    /\ input.env["OPENAI_API_KEY"] = "sk-test"
    /\ response.statusCode = 400
    /\ requests = 0

====
